---- MODULE Spec2Model ----
(***************************************************************************)
(* Shared type registry of the SmartLearn AI platform                      *)
(* (src/shared/types/python_types.py): pydantic record schemas.            *)
(*                                                                         *)
(* Every class of the file is a declaration; what it does is what          *)
(* pydantic's BaseModel does with it when a record is constructed from a   *)
(* mapping: per-field coercion and validation, numeric bounds given with   *)
(* Field(ge=, le=), enum membership, defaults, recursion into nested       *)
(* records, lists and dicts, and collection of every error.  The file      *)
(* pins no pydantic version and is valid under pydantic 1 and 2; where the *)
(* two differ the model follows the installed major version, `major`.      *)
(*                                                                         *)
(* Values.  A JSON value is a record tagged by t:                          *)
(*   str / int / float / bool / null   [t, n, s]                           *)
(*   arr                               [t, a]   a: sequence of values      *)
(*   obj                               [t, f]   f: key -> value            *)
(* A float is held in fixed point, n = value * Scale.  A validated         *)
(* instance also holds                                                     *)
(*   dt     [t, n, s]    n: seconds since the epoch, s: "utc" or "naive"   *)
(*   enum   [t, n, s]    s: the member's value                             *)
(*   model  [t, cls, f]  f: field -> value, every declared field present   *)
(***************************************************************************)
EXTENDS Integers, Sequences, FiniteSets, TLC

VARIABLES major, phase, cls, payload, result, wire, result2,
          heap, insts, pristine

vars == <<major, phase, cls, payload, result, wire, result2,
          heap, insts, pristine>>

callVars == <<phase, cls, payload, result, wire, result2>>
heapVars == <<heap, insts, pristine>>

(***************************************************************************)
(* Values                                                                  *)
(***************************************************************************)
\* fixed-point unit: 1.0 is Scale, 0.0001 is 1
Scale == 10 ^ 4

Scalar(t, n, s) == [t |-> t, n |-> n, s |-> s]
JStr(s) == Scalar("str", 0, s)
JInt(n) == Scalar("int", n, "")
JFloat(n) == Scalar("float", n, "")
JBool(b) == Scalar("bool", IF b THEN 1 ELSE 0, "")
JNull == Scalar("null", 0, "")
JArr(a) == [t |-> "arr", a |-> a]
JObj(f) == [t |-> "obj", f |-> f]
PyDatetime(n, tz) == Scalar("dt", n, tz)
PyEnum(s) == Scalar("enum", 0, s)
PyModel(c, f) == [t |-> "model", cls |-> c, f |-> f]

Ok(val) == [errs |-> {}, val |-> val]
Err(loc) == [errs |-> {loc}, val |-> JNull]

\* str(i) of a list index or a small int
IntText == <<"0", "1", "2", "3", "4", "5", "6", "7">>
Idx(i) == IntText[i + 1]

(***************************************************************************)
(* Enumerations (lines 11-51)                                              *)
(***************************************************************************)
DifficultyLevel == {"beginner", "intermediate", "advanced"}
ExplanationDepth == {"basic", "detailed", "comprehensive"}
ExplanationStyle == {"detailed", "concise", "example-heavy"}
InteractionType == {"concept_explanation", "code_analysis", "debugging_help"}
DocumentType == {"tutorial", "documentation", "example", "reference"}
IssueType == {"error", "warning", "suggestion"}
IssueSeverity == {"low", "medium", "high"}

(***************************************************************************)
(* Annotations                                                             *)
(***************************************************************************)
TStr == [k |-> "str"]
TBool == [k |-> "bool"]
TInt == [k |-> "int", bounded |-> FALSE, ge |-> 0, le |-> 0]
TFloat == [k |-> "float", bounded |-> FALSE, ge |-> 0, le |-> 0]
TDatetime == [k |-> "datetime"]
TAny == [k |-> "any"]
TEnum(vals) == [k |-> "enum", vals |-> vals]
TList(of) == [k |-> "list", of |-> of]
TDict(of) == [k |-> "dict", of |-> of]
TOptional(of) == [k |-> "optional", of |-> of]
TModel(c) == [k |-> "model", cls |-> c]

\* Field(ge=, le=): inclusive bounds on a number
Field(ty, ge, le) == [ty EXCEPT !.bounded = TRUE, !.ge = ge, !.le = le]

\* name: annotation            (required)
Req(name, ty) == [name |-> name, ty |-> ty, has_default |-> FALSE, default |-> JNull]
\* name: annotation = default
Dflt(name, ty, d) == [name |-> name, ty |-> ty, has_default |-> TRUE, default |-> d]

\* C(): the class called with no argument, as the file does for the defaults
\* that are nested records
NoArgs(c) == Scalar("call", 0, c)

(***************************************************************************)
(* Record classes, field by field as declared                              *)
(***************************************************************************)
NotificationSettings ==
    << Dflt("email_notifications", TBool, JBool(TRUE)),
       Dflt("push_notifications", TBool, JBool(TRUE)),
       Dflt("learning_reminders", TBool, JBool(TRUE)),
       Dflt("progress_updates", TBool, JBool(TRUE)) >>

UserPreferences ==
    << Dflt("explanation_style", TEnum(ExplanationStyle), PyEnum("detailed")),
       Dflt("preferred_languages", TList(TStr), JArr(<<>>)),
       Dflt("learning_goals", TList(TStr), JArr(<<>>)),
       Dflt("notification_settings", TModel("NotificationSettings"),
            NoArgs("NotificationSettings")) >>

SkillLevel ==
    << Req("topic", TStr),
       Req("level", TEnum(DifficultyLevel)),
       Req("confidence", Field(TFloat, 0, Scale)),
       Req("last_assessed", TDatetime) >>

ExpertiseLevel ==
    << Req("overall_level", TEnum(DifficultyLevel)),
       Dflt("domain_expertise", TDict(TFloat), JObj(<<>>)) >>

UserFeedback ==
    << Req("rating", Field(TInt, 1, 5)),
       Req("helpful", TBool),
       Req("clarity_rating", Field(TInt, 1, 5)),
       Req("accuracy_rating", Field(TInt, 1, 5)),
       Dflt("comments", TOptional(TStr), JNull) >>

LearningInteraction ==
    << Req("id", TStr),
       Req("user_id", TStr),
       Req("type", TEnum(InteractionType)),
       Req("query", TStr),
       Req("response", TStr),
       Dflt("context_used", TList(TStr), JArr(<<>>)),
       Dflt("feedback", TOptional(TModel("UserFeedback")), JNull),
       Req("timestamp", TDatetime),
       Req("processing_time", TFloat) >>

LearningContext ==
    << Dflt("skill_levels", TDict(TModel("SkillLevel")), JObj(<<>>)),
       Dflt("learning_history", TList(TModel("LearningInteraction")), JArr(<<>>)),
       Dflt("current_focus_areas", TList(TStr), JArr(<<>>)),
       Dflt("estimated_expertise", TOptional(TModel("ExpertiseLevel")), JNull) >>

User ==
    << Req("id", TStr),
       Req("email", TStr),
       Req("username", TStr),
       Req("created_at", TDatetime),
       Req("updated_at", TDatetime),
       Dflt("preferences", TModel("UserPreferences"), NoArgs("UserPreferences")),
       Dflt("learning_context", TModel("LearningContext"), NoArgs("LearningContext")) >>

Issue ==
    << Req("type", TEnum(IssueType)),
       Dflt("line_number", TOptional(TInt), JNull),
       Req("description", TStr),
       Req("solution", TStr),
       Req("severity", TEnum(IssueSeverity)) >>

DocumentMetadata ==
    << Req("author", TStr),
       Req("created_date", TDatetime),
       Req("last_updated", TDatetime),
       Req("version", TStr),
       Dflt("language", TOptional(TStr), JNull),
       Dflt("framework", TOptional(TStr), JNull) >>

KnowledgeDocument ==
    << Req("id", TStr),
       Req("title", TStr),
       Req("content", TStr),
       Req("document_type", TEnum(DocumentType)),
       Dflt("topics", TList(TStr), JArr(<<>>)),
       Req("difficulty_level", TEnum(DifficultyLevel)),
       Req("source", TStr),
       Dflt("embedding_vector", TList(TFloat), JArr(<<>>)),
       Req("metadata", TModel("DocumentMetadata")) >>

ConversationMessage ==
    << Req("role", TStr),
       Req("content", TStr),
       Req("timestamp", TDatetime),
       Dflt("metadata", TOptional(TDict(TAny)), JNull) >>

SessionContext ==
    << Dflt("current_topic", TOptional(TStr), JNull),
       Dflt("conversation_history", TList(TModel("ConversationMessage")), JArr(<<>>)),
       Dflt("active_learning_goals", TList(TStr), JArr(<<>>)) >>

UserContext ==
    << Req("user_id", TStr),
       Req("skill_level", TModel("SkillLevel")),
       Req("preferences", TModel("UserPreferences")),
       Dflt("session_context", TModel("SessionContext"), NoArgs("SessionContext")) >>

SearchResult ==
    << Req("document_id", TStr),
       Req("title", TStr),
       Req("content_snippet", TStr),
       Req("relevance_score", Field(TFloat, 0, Scale)),
       Req("metadata", TModel("DocumentMetadata")) >>

LearningResource ==
    << Req("id", TStr),
       Req("title", TStr),
       Req("type", TStr),
       Dflt("url", TOptional(TStr), JNull),
       Dflt("content", TOptional(TStr), JNull),
       Req("difficulty_level", TEnum(DifficultyLevel)),
       Req("estimated_time", TInt) >>

Milestone ==
    << Req("id", TStr),
       Req("title", TStr),
       Req("description", TStr),
       Dflt("required_skills", TList(TStr), JArr(<<>>)),
       Dflt("completion_criteria", TList(TStr), JArr(<<>>)),
       Req("estimated_time", TInt) >>

LearningPath ==
    << Req("id", TStr),
       Req("user_id", TStr),
       Req("title", TStr),
       Req("description", TStr),
       Dflt("target_skills", TList(TStr), JArr(<<>>)),
       Req("estimated_duration", TInt),
       Dflt("difficulty_progression", TList(TEnum(DifficultyLevel)), JArr(<<>>)),
       Dflt("milestones", TList(TModel("Milestone")), JArr(<<>>)),
       Dflt("resources", TList(TModel("LearningResource")), JArr(<<>>)) >>

SkillImprovement ==
    << Req("topic", TStr),
       Req("previous_level", TFloat),
       Req("current_level", TFloat),
       Req("improvement_date", TDatetime) >>

ProgressMetrics ==
    << Dflt("topics_covered", TList(TStr), JArr(<<>>)),
       Req("time_spent", TInt),
       Dflt("concepts_learned", TInt, JInt(0)),
       Dflt("questions_asked", TInt, JInt(0)),
       Dflt("feedback_given", TInt, JInt(0)),
       Dflt("skill_improvements", TList(TModel("SkillImprovement")), JArr(<<>>)) >>

AnalyticsData ==
    << Req("user_id", TStr),
       Req("session_id", TStr),
       Req("event_type", TStr),
       Dflt("event_data", TDict(TAny), JObj(<<>>)),
       Req("timestamp", TDatetime) >>

\* PaginatedResponse with page and limit counted from 1
PaginatedResponse_from_one ==
    << Req("data", TList(TAny)),
       Req("total", TInt),
       Req("page", Field(TInt, 1, 1000)),
       Req("limit", Field(TInt, 1, 1000)),
       Req("has_next", TBool),
       Req("has_prev", TBool) >>

PaginatedResponse ==
    << Req("data", TList(TAny)),
       Req("total", TInt),
       Req("page", TInt),
       Req("limit", TInt),
       Req("has_next", TBool),
       Req("has_prev", TBool) >>

GenerationContext ==
    << Req("query", TStr),
       Req("retrieved_documents", TList(TModel("SearchResult"))),
       Req("context_text", TStr),
       Dflt("relevance_threshold", TFloat, JFloat((7 * Scale) \div 10)) >>

SkillAssessment ==
    << Req("user_id", TStr),
       Req("assessed_skills", TDict(TModel("SkillLevel"))),
       Req("confidence_score", Field(TFloat, 0, Scale)),
       Req("assessment_date", TDatetime),
       Req("assessment_method", TStr) >>

PersonalizedResponse ==
    << Req("original_response", TStr),
       Req("personalized_content", TStr),
       Req("adaptation_factors", TList(TStr)),
       Req("confidence_score", Field(TFloat, 0, Scale)) >>

WorkflowOptimization ==
    << Req("current_workflow", TStr),
       Req("optimized_workflow", TStr),
       Req("improvements", TList(TStr)),
       Req("estimated_time_savings", TInt),
       Req("difficulty_reduction", Field(TFloat, 0, Scale)) >>

Schema(c) ==
    CASE c = "NotificationSettings" -> NotificationSettings
      [] c = "UserPreferences" -> UserPreferences
      [] c = "SkillLevel" -> SkillLevel
      [] c = "ExpertiseLevel" -> ExpertiseLevel
      [] c = "UserFeedback" -> UserFeedback
      [] c = "LearningInteraction" -> LearningInteraction
      [] c = "LearningContext" -> LearningContext
      [] c = "User" -> User
      [] c = "Issue" -> Issue
      [] c = "DocumentMetadata" -> DocumentMetadata
      [] c = "KnowledgeDocument" -> KnowledgeDocument
      [] c = "ConversationMessage" -> ConversationMessage
      [] c = "SessionContext" -> SessionContext
      [] c = "UserContext" -> UserContext
      [] c = "SearchResult" -> SearchResult
      [] c = "LearningResource" -> LearningResource
      [] c = "Milestone" -> Milestone
      [] c = "LearningPath" -> LearningPath
      [] c = "SkillImprovement" -> SkillImprovement
      [] c = "ProgressMetrics" -> ProgressMetrics
      [] c = "AnalyticsData" -> AnalyticsData
      [] c = "PaginatedResponse" -> PaginatedResponse
      [] c = "GenerationContext" -> GenerationContext
      [] c = "SkillAssessment" -> SkillAssessment
      [] c = "PersonalizedResponse" -> PersonalizedResponse
      [] c = "WorkflowOptimization" -> WorkflowOptimization

RECURSIVE ValidateType(_, _, _)
RECURSIVE validate_model(_, _, _)

(***************************************************************************)
(* Scalar validators (pydantic's lax mode, the default of BaseModel)       *)
(***************************************************************************)
\* int(text): the decimal numerals of the sample texts
ParseInt(s) == IF \E i \in 1..Len(IntText) : IntText[i] = s
               THEN {(CHOOSE i \in 1..Len(IntText) : IntText[i] = s) - 1}
               ELSE {}

\* float(text): the sample texts that are float literals
ParseFloat(s) == (IF s = "0.85" THEN {(85 * Scale) \div 100} ELSE {})
                 \cup (IF s = "0.5" THEN {Scale \div 2} ELSE {})
                 \cup (IF s = "1.5" THEN {Scale + Scale \div 2} ELSE {})
                 \cup {n * Scale : n \in ParseInt(s)}

\* int(x) of a float: truncation toward zero
Trunc(n) == IF n >= 0 THEN n \div Scale ELSE -((-n) \div Scale)

\* number_range with an out-of-range number moved to the nearest bound
number_range_clamped(ty, r, loc) ==
    IF r.errs = {} /\ ty.bounded /\ r.val.n < ty.ge THEN Ok([r.val EXCEPT !.n = ty.ge])
    ELSE IF r.errs = {} /\ ty.bounded /\ r.val.n > ty.le THEN Ok([r.val EXCEPT !.n = ty.le])
    ELSE r

\* a number within the bounds Field() gave, if any
number_range(ty, r, loc) ==
    IF r.errs = {} /\ ty.bounded /\ ~(ty.ge <= r.val.n /\ r.val.n <= ty.le)
    THEN Err(loc) ELSE r

\* int_validator in strict mode: only an int is an int
int_validator_strict(ty, v, loc) ==
    number_range(ty, IF v.t = "int" THEN Ok(v) ELSE Err(loc), loc)

int_validator(ty, v, loc) ==
    LET r == CASE v.t = "int" -> Ok(v)
               [] v.t = "bool" -> Ok(JInt(v.n))
               [] v.t = "float" ->
                    IF v.n % Scale = 0 THEN Ok(JInt(v.n \div Scale))
                    ELSE IF major = 1 THEN Ok(JInt(Trunc(v.n)))
                    ELSE Err(loc)
               [] v.t = "str" ->
                    IF ParseInt(v.s) # {}
                    THEN Ok(JInt(CHOOSE n \in ParseInt(v.s) : TRUE))
                    ELSE Err(loc)
               [] OTHER -> Err(loc)
    IN number_range(ty, r, loc)

float_validator(ty, v, loc) ==
    LET r == CASE v.t = "float" -> Ok(v)
               [] v.t = "int" -> Ok(JFloat(v.n * Scale))
               [] v.t = "bool" -> Ok(JFloat(v.n * Scale))
               [] v.t = "str" ->
                    IF ParseFloat(v.s) # {}
                    THEN Ok(JFloat(CHOOSE n \in ParseFloat(v.s) : TRUE))
                    ELSE Err(loc)
               [] OTHER -> Err(loc)
    IN number_range(ty, r, loc)

str_validator(v, loc) ==
    CASE v.t = "str" -> Ok(v)
      [] v.t = "int" /\ major = 1 /\ v.n \in 0..(Len(IntText) - 1) -> Ok(JStr(Idx(v.n)))
      [] OTHER -> Err(loc)

BOOL_TRUE == {"1", "on", "t", "true", "y", "yes"}
BOOL_FALSE == {"0", "off", "f", "false", "n", "no"}

bool_validator(v, loc) ==
    CASE v.t = "bool" -> Ok(v)
      [] v.t = "int" /\ v.n \in {0, 1} -> Ok(JBool(v.n = 1))
      [] v.t = "float" /\ v.n \in {0, Scale} -> Ok(JBool(v.n = Scale))
      [] v.t = "str" /\ v.s \in BOOL_TRUE -> Ok(JBool(TRUE))
      [] v.t = "str" /\ v.s \in BOOL_FALSE -> Ok(JBool(FALSE))
      [] OTHER -> Err(loc)

\* seconds since the epoch of 2024-01-01T00:00:00Z
T2024 == 19723 * 86400

\* the ISO-8601 texts of the sample instants
ParseDatetime(s) ==
    CASE s \in {"2024-01-01T00:00:00Z", "2024-01-01T00:00:00+00:00"} -> {PyDatetime(T2024, "utc")}
      [] s = "2024-01-01T00:00:00" -> {PyDatetime(T2024, "naive")}
      [] s \in {"1970-01-01T00:00:00Z", "1970-01-01T00:00:00+00:00"} -> {PyDatetime(0, "utc")}
      [] s = "1970-01-01T00:00:00" -> {PyDatetime(0, "naive")}
      [] OTHER -> {}

datetime_validator(v, loc) ==
    CASE v.t = "str" ->
           IF ParseDatetime(v.s) # {}
           THEN Ok(CHOOSE d \in ParseDatetime(v.s) : TRUE)
           ELSE Err(loc)
      [] v.t = "int" /\ v.n \in {0, T2024} -> Ok(PyDatetime(v.n, "utc"))
      [] OTHER -> Err(loc)

\* enum_validator falling back to a member when the value is none
enum_validator_fallback(ty, v, loc) ==
    IF v.t = "str" /\ v.s \in ty.vals THEN Ok(PyEnum(v.s))
    ELSE Ok(PyEnum(CHOOSE x \in ty.vals : TRUE))

enum_validator(ty, v, loc) ==
    IF v.t = "str" /\ v.s \in ty.vals THEN Ok(PyEnum(v.s)) ELSE Err(loc)

(***************************************************************************)
(* Containers and records                                                  *)
(***************************************************************************)
\* list_validator that takes the elements as they are
list_validator_shallow(ty, v, loc) ==
    IF v.t # "arr" THEN Err(loc) ELSE Ok(v)

list_validator(ty, v, loc) ==
    IF v.t # "arr" THEN Err(loc)
    ELSE LET rs == [i \in 1..Len(v.a) |->
                       ValidateType(ty.of, v.a[i], Append(loc, Idx(i - 1)))]
         IN [errs |-> UNION {rs[i].errs : i \in 1..Len(v.a)},
             val |-> JArr([i \in 1..Len(v.a) |-> rs[i].val])]

dict_validator(ty, v, loc) ==
    IF v.t # "obj" THEN Err(loc)
    ELSE LET rs == [key \in DOMAIN v.f |->
                       ValidateType(ty.of, v.f[key], Append(loc, key))]
         IN [errs |-> UNION {rs[key].errs : key \in DOMAIN v.f},
             val |-> JObj([key \in DOMAIN v.f |-> rs[key].val])]

ValidateType(ty, v, loc) ==
    CASE ty.k = "str" -> str_validator(v, loc)
      [] ty.k = "bool" -> bool_validator(v, loc)
      [] ty.k = "int" -> int_validator(ty, v, loc)
      [] ty.k = "float" -> float_validator(ty, v, loc)
      [] ty.k = "datetime" -> datetime_validator(v, loc)
      [] ty.k = "enum" -> enum_validator(ty, v, loc)
      [] ty.k = "any" -> Ok(v)
      [] ty.k = "list" -> list_validator(ty, v, loc)
      [] ty.k = "dict" -> dict_validator(ty, v, loc)
      [] ty.k = "optional" ->
           IF v.t = "null" THEN Ok(JNull) ELSE ValidateType(ty.of, v, loc)
      [] ty.k = "model" -> validate_model(ty.cls, v, loc)

FieldNames(sch) == {sch[i].name : i \in 1..Len(sch)}
FieldOf(sch, name) == sch[CHOOSE i \in 1..Len(sch) : sch[i].name = name]

\* one field of a record: the supplied value validated, else the default,
\* else "field required"
validate_field(fd, v, loc) ==
    IF fd.name \in DOMAIN v.f
    THEN ValidateType(fd.ty, v.f[fd.name], Append(loc, fd.name))
    ELSE IF fd.has_default
         THEN IF fd.default.t = "call"
              THEN validate_model(fd.default.s, JObj(<<>>), <<>>)
              ELSE Ok(fd.default)
    ELSE Err(Append(loc, fd.name))

\* validate_model stopping at the first field in error
validate_model_failfast(c, v, loc) ==
    IF v.t # "obj" THEN Err(loc)
    ELSE LET sch == Schema(c)
             rs == [i \in 1..Len(sch) |-> validate_field(sch[i], v, loc)]
             bad == {i \in 1..Len(sch) : rs[i].errs # {}}
         IN IF bad = {}
            THEN Ok(PyModel(c, [name \in FieldNames(sch) |->
                       rs[CHOOSE i \in 1..Len(sch) : sch[i].name = name].val]))
            ELSE [errs |-> rs[CHOOSE i \in bad : \A j \in bad : i <= j].errs, val |-> JNull]

\* BaseModel.__init__: every declared field is validated and every error is
\* kept; keys that name no field are ignored
validate_model(c, v, loc) ==
    IF v.t # "obj" THEN Err(loc)
    ELSE LET sch == Schema(c)
             rs == [name \in FieldNames(sch) |-> validate_field(FieldOf(sch, name), v, loc)]
             errs == UNION {rs[name].errs : name \in FieldNames(sch)}
         IN IF errs = {}
            THEN Ok(PyModel(c, [name \in FieldNames(sch) |-> rs[name].val]))
            ELSE [errs |-> errs, val |-> JNull]

(***************************************************************************)
(* Serialization: .json() / model_dump_json(), read back with json.loads   *)
(***************************************************************************)
IsoText(n) == IF n = 0 THEN "1970-01-01T00:00:00" ELSE "2024-01-01T00:00:00"

\* FormatDatetime without the UTC offset
FormatDatetime_no_offset(d) == IsoText(d.n)

\* datetime.isoformat() under pydantic 1, RFC 3339 with Z under pydantic 2
FormatDatetime(d) ==
    IF d.s = "naive" THEN IsoText(d.n)
    ELSE IF major = 1 THEN IsoText(d.n) \o "+00:00"
    ELSE IsoText(d.n) \o "Z"

RECURSIVE ToJson(_)
ToJson(val) ==
    CASE val.t = "dt" -> JStr(FormatDatetime(val))
      [] val.t = "enum" -> JStr(val.s)
      [] val.t = "model" -> JObj([name \in DOMAIN val.f |-> ToJson(val.f[name])])
      [] val.t = "obj" -> JObj([key \in DOMAIN val.f |-> ToJson(val.f[key])])
      [] val.t = "arr" -> JArr([i \in 1..Len(val.a) |-> ToJson(val.a[i])])
      [] OTHER -> val

(***************************************************************************)
(* Payloads the callers send: small sets that hold, for every constrained  *)
(* field, values on, inside and outside its bounds, values of another JSON *)
(* type, and the field left out                                            *)
(***************************************************************************)
MaxRating == 6
MaxCount == 2
MaxMinutes == 2
MaxDocs == 2

Without(o, k) == JObj([x \in DOMAIN o.f \ {k} |-> o.f[x]])
With(o, k, v) == JObj([x \in DOMAIN o.f \cup {k} |-> IF x = k THEN v ELSE o.f[x]])
\* o with each required field in turn left out, and o with an unknown key
Variants(o) == {Without(o, k) : k \in DOMAIN o.f} \cup {With(o, "unknown_key", JInt(1))}

Z2024 == JStr("2024-01-01T00:00:00Z")

ScoreSamples ==
    {JFloat(n) : n \in {-Scale, -1000, -1, 0, 1, (85 * Scale) \div 100, Scale - 1,
                        Scale, Scale + 1, Scale + Scale \div 2}}
    \cup {JInt(0), JInt(1), JInt(2), JStr("0.85"), JStr("1.5"), JStr("abc"), JNull}

RatingSamples ==
    {JInt(n) : n \in -1..MaxRating}
    \cup {JStr("3"), JStr("6"), JStr("abc"), JFloat(3 * Scale), JFloat(6 * Scale),
          JFloat(3 * Scale + (7 * Scale) \div 10), JNull}

SmallRatings == {JInt(0), JInt(1), JInt(5), JInt(MaxRating), JStr("3")}

DurationInts == {JInt(n) : n \in -2..MaxMinutes} \cup {JStr("abc")}
DurationFloats == {JFloat(n) : n \in {-Scale, -1, 0, Scale \div 2, Scale}} \cup {JInt(-1), JInt(2)}

DatetimeSamples ==
    {Z2024, JStr("2024-01-01T00:00:00+00:00"), JStr("2024-01-01T00:00:00"),
     JStr("not-a-date"), JInt(0)}

\* for each enum: its members, and strings that are not members
EnumSamples(vals) ==
    {JStr(x) : x \in vals}
    \cup {JStr("Advanced"), JStr("BEGINNER"), JStr("expert"), JStr("Detailed"),
          JStr("Example-Heavy"), JStr("Code_Analysis"), JStr("Tutorial"),
          JStr("ERROR"), JStr("High"), JStr(""), JInt(1), JNull}

FeedbackOf(r, h, c, a) ==
    JObj([rating |-> r, helpful |-> h, clarity_rating |-> c, accuracy_rating |-> a])
FeedbackOK == FeedbackOf(JInt(4), JBool(TRUE), JInt(3), JInt(4))

UserFeedbackInputs ==
    LET small == {FeedbackOf(r, h, c, a) :
                    r \in SmallRatings, c \in SmallRatings, a \in SmallRatings,
                    h \in {JBool(TRUE), JStr("yes"), JStr("maybe")}}
        each == {With(FeedbackOK, k, v) :
                    k \in {"rating", "clarity_rating", "accuracy_rating"},
                    v \in RatingSamples}
    IN small \cup each \cup {With(o, "comments", JStr("clear")) : o \in each}
       \cup Variants(FeedbackOK)

SkillLevelOf(t, l, c, d) ==
    JObj([topic |-> t, level |-> l, confidence |-> c, last_assessed |-> d])
SkillLevelOK(topic) == SkillLevelOf(JStr(topic), JStr("advanced"), JFloat((85 * Scale) \div 100), Z2024)

SkillLevelInputs ==
    {SkillLevelOf(t, l, c, d) :
        t \in {JStr("recursion"), JInt(5)},
        l \in {JStr("advanced"), JStr("beginner"), JStr("Advanced"), JStr("expert")},
        c \in ScoreSamples, d \in DatetimeSamples}
    \cup {With(SkillLevelOK("recursion"), "level", l) : l \in EnumSamples(DifficultyLevel)}
    \cup Variants(SkillLevelOK("recursion"))

MetadataOK ==
    JObj([author |-> JStr("ann"), created_date |-> Z2024,
          last_updated |-> Z2024, version |-> JStr("1")])

SearchResultOf(score, meta) ==
    JObj([document_id |-> JStr("d1"), title |-> JStr("t"),
          content_snippet |-> JStr("s"), relevance_score |-> score, metadata |-> meta])

SearchResultInputs ==
    {SearchResultOf(sc, m) : sc \in ScoreSamples,
        m \in {MetadataOK, Without(MetadataOK, "author"), JNull}}
    \cup Variants(SearchResultOf(JFloat(Scale \div 2), MetadataOK))

PersonalizedResponseOf(fs, sc) ==
    JObj([original_response |-> JStr("o"), personalized_content |-> JStr("p"),
          adaptation_factors |-> fs, confidence_score |-> sc])

PersonalizedResponseInputs ==
    {PersonalizedResponseOf(fs, sc) : sc \in ScoreSamples,
        fs \in {JArr(<<>>), JArr(<<JStr("level")>>), JStr("level")}}
    \cup Variants(PersonalizedResponseOf(JArr(<<>>), JFloat(0)))

WorkflowOptimizationOf(mins, sc) ==
    JObj([current_workflow |-> JStr("c"), optimized_workflow |-> JStr("o"),
          improvements |-> JArr(<<JStr("i")>>), estimated_time_savings |-> mins,
          difficulty_reduction |-> sc])

WorkflowOptimizationInputs ==
    {WorkflowOptimizationOf(m, sc) : m \in DurationInts, sc \in ScoreSamples}
    \cup Variants(WorkflowOptimizationOf(JInt(1), JFloat(Scale)))

SkillAssessmentOf(skills, sc) ==
    JObj([user_id |-> JStr("u1"), assessed_skills |-> skills, confidence_score |-> sc,
          assessment_date |-> Z2024, assessment_method |-> JStr("quiz")])

SkillAssessmentInputs ==
    {SkillAssessmentOf(sk, sc) : sc \in ScoreSamples,
        sk \in {JObj(<<>>), JObj([recursion |-> SkillLevelOK("recursion")]),
                JObj([recursion |-> With(SkillLevelOK("recursion"), "confidence",
                                         JFloat(Scale + Scale \div 2))])}}
    \cup Variants(SkillAssessmentOf(JObj(<<>>), JFloat(0)))

InteractionOf(ty, fb, secs) ==
    JObj([id |-> JStr("i1"), user_id |-> JStr("u1"), type |-> ty, query |-> JStr("q"),
          response |-> JStr("r"), feedback |-> fb, timestamp |-> Z2024,
          processing_time |-> secs])
InteractionOK == Without(InteractionOf(JStr("code_analysis"), JNull, JFloat(Scale \div 2)), "feedback")
InteractionBadFeedback ==
    InteractionOf(JStr("code_analysis"), With(FeedbackOK, "rating", JInt(6)), JFloat(Scale \div 2))

FeedbackSamples ==
    {JNull, FeedbackOK, With(FeedbackOK, "rating", JInt(6)),
     With(FeedbackOK, "clarity_rating", JInt(0)), Without(FeedbackOK, "helpful"),
     FeedbackOf(JInt(6), JBool(TRUE), JInt(0), JInt(9)), JStr("good")}

LearningInteractionInputs ==
    {InteractionOf(ty, fb, secs) :
        ty \in {JStr("code_analysis"), JStr("Code_Analysis")},
        fb \in FeedbackSamples, secs \in DurationFloats}
    \cup {With(InteractionOK, "type", ty) : ty \in EnumSamples(InteractionType)}
    \cup Variants(InteractionOK)

LearningResourceOf(lvl, mins) ==
    JObj([id |-> JStr("r1"), title |-> JStr("t"), type |-> JStr("video"),
          difficulty_level |-> lvl, estimated_time |-> mins])

LearningResourceInputs ==
    {LearningResourceOf(l, m) : l \in {JStr("beginner"), JStr("expert")}, m \in DurationInts}
    \cup Variants(LearningResourceOf(JStr("beginner"), JInt(1)))

MilestoneOf(hours) ==
    JObj([id |-> JStr("m1"), title |-> JStr("t"), description |-> JStr("d"),
          estimated_time |-> hours])

MilestoneInputs ==
    {MilestoneOf(h) : h \in DurationInts} \cup Variants(MilestoneOf(JInt(1)))

LearningPathOf(hours, ms, rs) ==
    JObj([id |-> JStr("p1"), user_id |-> JStr("u1"), title |-> JStr("t"),
          description |-> JStr("d"), estimated_duration |-> hours,
          milestones |-> ms, resources |-> rs])

LearningPathInputs ==
    {LearningPathOf(h, ms, rs) : h \in DurationInts,
        ms \in {JArr(<<>>), JArr(<<MilestoneOf(JInt(1))>>), JArr(<<MilestoneOf(JInt(-1))>>)},
        rs \in {JArr(<<>>), JArr(<<LearningResourceOf(JStr("beginner"), JInt(-2))>>),
                JArr(<<LearningResourceOf(JStr("expert"), JInt(1))>>)}}
    \cup Variants(LearningPathOf(JInt(1), JArr(<<>>), JArr(<<>>)))

ProgressMetricsInputs ==
    {JObj([time_spent |-> m]) : m \in DurationInts}
    \cup {JObj([time_spent |-> m, concepts_learned |-> JInt(n)]) :
            m \in DurationInts, n \in -1..MaxCount}
    \cup Variants(JObj([time_spent |-> JInt(1)]))

UserPreferencesInputs ==
    {JObj(<<>>)}
    \cup {JObj([explanation_style |-> e]) : e \in EnumSamples(ExplanationStyle)}
    \cup {JObj([explanation_style |-> e, preferred_languages |-> JArr(<<JStr("python")>>)]) :
            e \in EnumSamples(ExplanationStyle)}
    \cup {JObj([notification_settings |-> n]) :
            n \in {JObj(<<>>), JObj([email_notifications |-> JBool(FALSE)]),
                   JObj([email_notifications |-> JStr("maybe")])}}

IssueOf(ty, sev) ==
    JObj([type |-> ty, description |-> JStr("d"), solution |-> JStr("s"), severity |-> sev])

IssueInputs ==
    {IssueOf(ty, sev) : ty \in EnumSamples(IssueType), sev \in EnumSamples(IssueSeverity)}
    \cup Variants(IssueOf(JStr("error"), JStr("low")))

KnowledgeDocumentOf(dt, lvl) ==
    JObj([id |-> JStr("k1"), title |-> JStr("t"), content |-> JStr("c"),
          document_type |-> dt, difficulty_level |-> lvl, source |-> JStr("s"),
          metadata |-> MetadataOK])

KnowledgeDocumentInputs ==
    {KnowledgeDocumentOf(dt, lvl) : dt \in EnumSamples(DocumentType),
        lvl \in {JStr("beginner"), JStr("BEGINNER")}}
    \cup Variants(KnowledgeDocumentOf(JStr("tutorial"), JStr("beginner")))

PageOf(data, total, page, limit, nxt, prv) ==
    JObj([data |-> data, total |-> total, page |-> page, limit |-> limit,
          has_next |-> nxt, has_prev |-> prv])

PaginatedResponseInputs ==
    {PageOf(d, JInt(t), JInt(pg), JInt(l), JBool(n), JBool(pv)) :
        d \in {JArr(<<>>), JArr(<<JInt(1), JStr("a")>>)},
        t \in 0..MaxCount, pg \in -1..MaxCount, l \in -1..MaxCount,
        n \in BOOLEAN, pv \in BOOLEAN}
    \cup {With(PageOf(JArr(<<>>), JInt(0), JInt(1), JInt(10), JBool(FALSE), JBool(FALSE)), k, v) :
            k \in {"data", "total", "page", "limit", "has_next", "has_prev"},
            v \in {JStr("abc"), JNull, JArr(<<>>), JInt(-1)}}
    \cup Variants(PageOf(JArr(<<>>), JInt(0), JInt(1), JInt(10), JBool(FALSE), JBool(FALSE)))

SkillLevelsSamples ==
    {JObj(<<>>),
     JObj([recursion |-> SkillLevelOK("recursion")]),
     JObj([recursion |-> SkillLevelOK("loops")]),
     JObj([recursion |-> SkillLevelOK("recursion"), loops |-> SkillLevelOK("loops")]),
     JObj([recursion |-> SkillLevelOK("recursion"), loops |-> SkillLevelOK("recursion")]),
     JObj([recursion |-> With(SkillLevelOK("recursion"), "confidence",
                              JFloat(Scale + Scale \div 2))]),
     JObj([recursion |-> SkillLevelOK("recursion"),
           loops |-> With(SkillLevelOK("loops"), "confidence", JFloat(-1))]),
     JArr(<<SkillLevelOK("recursion")>>)}

HistorySamples ==
    {JArr(<<>>), JArr(<<InteractionOK>>),
     JArr(<<InteractionOf(JStr("code_analysis"), FeedbackOK, JFloat(0))>>),
     JArr(<<InteractionBadFeedback>>),
     JArr(<<InteractionOK, InteractionBadFeedback>>)}

LearningContextInputs ==
    {JObj(<<>>)}
    \cup {JObj([skill_levels |-> sl]) : sl \in SkillLevelsSamples}
    \cup {JObj([learning_history |-> h]) : h \in HistorySamples}
    \cup {JObj([skill_levels |-> sl, learning_history |-> h]) :
            sl \in SkillLevelsSamples, h \in HistorySamples}

\* every list of at most MaxDocs search results with the given scores
RECURSIVE DocLists(_)
DocLists(n) ==
    IF n = 0 THEN {<<>>}
    ELSE LET shorter == DocLists(n - 1)
         IN shorter \cup
            {Append(l, SearchResultOf(JFloat(sc), MetadataOK)) :
                l \in {x \in shorter : Len(x) = n - 1},
                sc \in {-1000, 0, Scale \div 2, Scale, Scale + 1}}

GenerationContextOf(docs) ==
    JObj([query |-> JStr("q"), retrieved_documents |-> docs, context_text |-> JStr("c")])

GenerationContextInputs ==
    {GenerationContextOf(JArr(l)) : l \in DocLists(MaxDocs)}
    \cup {GenerationContextOf(JNull)}
    \cup Variants(GenerationContextOf(JArr(<<>>)))

UserOf(prefs, ctx) ==
    JObj([id |-> JStr("u1"), email |-> JStr("a@b.c"), username |-> JStr("ann"),
          created_at |-> Z2024, updated_at |-> Z2024,
          preferences |-> prefs, learning_context |-> ctx])
UserOK == Without(Without(UserOf(JNull, JNull), "preferences"), "learning_context")

UserInputs ==
    {UserOK}
    \cup {With(UserOK, "learning_context", ctx) : ctx \in LearningContextInputs}
    \cup {With(UserOK, "preferences", pr) :
            pr \in {JObj(<<>>), JObj([explanation_style |-> JStr("concise")]),
                    JObj([explanation_style |-> JStr("verbose")])}}
    \cup {UserOf(JObj([explanation_style |-> JStr("verbose")]),
                 JObj([learning_history |-> JArr(<<InteractionBadFeedback>>)]))}
    \cup Variants(UserOK)

Classes ==
    {"UserFeedback", "SkillLevel", "SearchResult", "PersonalizedResponse",
     "WorkflowOptimization", "SkillAssessment", "LearningInteraction",
     "LearningResource", "Milestone", "LearningPath", "ProgressMetrics",
     "UserPreferences", "Issue", "KnowledgeDocument", "PaginatedResponse",
     "LearningContext", "GenerationContext", "User"}

Inputs(c) ==
    CASE c = "UserFeedback" -> UserFeedbackInputs
      [] c = "SkillLevel" -> SkillLevelInputs
      [] c = "SearchResult" -> SearchResultInputs
      [] c = "PersonalizedResponse" -> PersonalizedResponseInputs
      [] c = "WorkflowOptimization" -> WorkflowOptimizationInputs
      [] c = "SkillAssessment" -> SkillAssessmentInputs
      [] c = "LearningInteraction" -> LearningInteractionInputs
      [] c = "LearningResource" -> LearningResourceInputs
      [] c = "Milestone" -> MilestoneInputs
      [] c = "LearningPath" -> LearningPathInputs
      [] c = "ProgressMetrics" -> ProgressMetricsInputs
      [] c = "UserPreferences" -> UserPreferencesInputs
      [] c = "Issue" -> IssueInputs
      [] c = "KnowledgeDocument" -> KnowledgeDocumentInputs
      [] c = "PaginatedResponse" -> PaginatedResponseInputs
      [] c = "LearningContext" -> LearningContextInputs
      [] c = "GenerationContext" -> GenerationContextInputs
      [] c = "User" -> UserInputs

(***************************************************************************)
(* A service call: a record is constructed from a received payload; an     *)
(* accepted instance may be serialized, and the serialized form received   *)
(* and validated again                                                     *)
(***************************************************************************)
NoResult == Ok(JNull)

InitCall ==
    /\ phase = "idle"
    /\ cls = ""
    /\ payload = JNull
    /\ result = NoResult
    /\ wire = JNull
    /\ result2 = NoResult

\* C(**x)
Construct(c, x) ==
    /\ phase = "idle"
    /\ cls' = c
    /\ payload' = x
    /\ result' = validate_model(c, x, <<>>)
    /\ phase' = IF result'.errs = {} THEN "accepted" ELSE "rejected"
    /\ UNCHANGED <<major, wire, result2, heapVars>>

\* instance.json(), then json.loads of the text
Serialize ==
    /\ phase = "accepted"
    /\ wire' = ToJson(result.val)
    /\ phase' = "serialized"
    /\ UNCHANGED <<major, cls, payload, result, result2, heapVars>>

\* C(**wire)
Revalidate ==
    /\ phase = "serialized"
    /\ result2' = validate_model(cls, wire, <<>>)
    /\ phase' = "revalidated"
    /\ UNCHANGED <<major, cls, payload, result, wire, heapVars>>

\* the call returns: its values are dropped
Discard ==
    /\ phase # "idle"
    /\ phase' = "idle"
    /\ cls' = ""
    /\ payload' = JNull
    /\ result' = NoResult
    /\ wire' = JNull
    /\ result2' = NoResult
    /\ UNCHANGED <<major, heapVars>>

(***************************************************************************)
(* Objects.  The defaults written in the class bodies are objects made once,*)
(* when the file is imported; an instance made with a field left out gets  *)
(* pydantic's copy of that object.  The heap holds every container and     *)
(* record object: a reference is its index.                                *)
(*   list / dict   [k, cls |-> "", items, refs |-> <<>>, attrs |-> <<>>]   *)
(*   record        [k |-> "model", cls, items |-> <<>>, refs, attrs]       *)
(* refs: field -> reference, for the fields that hold a container or a     *)
(* record; attrs: field -> value, for the scalar fields with a default.    *)
(***************************************************************************)
MaxInstances == 2
MaxMutations == 2

\* Op(v) with v evaluated once, before Op uses it
Bind(v, Op(_)) == CHOOSE y \in {Op(x) : x \in {v}} : TRUE

Container(k, items) == [k |-> k, cls |-> "", items |-> items, refs |-> <<>>, attrs |-> <<>>]
Alloc(h, obj) == [heap |-> Append(h, obj), ref |-> Len(h) + 1]

IsRefKind(ty) == ty.k \in {"list", "dict", "model"}

\* the scalar fields of class c that have a default, with it
ScalarDefaults(c) ==
    LET sch == Schema(c)
        names == {sch[i].name : i \in {j \in 1..Len(sch) :
                                        sch[j].has_default /\ ~IsRefKind(sch[j].ty)}}
    IN [name \in names |-> FieldOf(sch, name).default]

RECURSIVE deepcopy(_, _)
RECURSIVE copy_children(_, _, _, _)

\* copy.deepcopy of the record obj: its children in field order, then itself
copy_children(h, obj, i, refs) ==
    LET sch == Schema(obj.cls)
    IN IF i > Len(sch)
       THEN Alloc(h, [obj EXCEPT !.refs = refs])
       ELSE IF sch[i].name \in DOMAIN obj.refs
            THEN LET rest(c) == copy_children(c.heap, obj, i + 1,
                                                  refs @@ (sch[i].name :> c.ref))
                 IN Bind(deepcopy(h, obj.refs[sch[i].name]), rest)
            ELSE copy_children(h, obj, i + 1, refs)

deepcopy(h, r) ==
    IF h[r].k = "model" THEN copy_children(h, h[r], 1, <<>>)
    ELSE Alloc(h, h[r])

\* smart_deepcopy handing out the declared object itself
smart_deepcopy_shared(h, r) == [heap |-> h, ref |-> r]

\* the default of a field for a new instance: a copy of the declared object
smart_deepcopy(h, r) == deepcopy(h, r)

RECURSIVE construct(_, _, _, _)
RECURSIVE build_fields(_, _, _, _, _, _)

\* the fields of a new record of class c, in order; those in `supplied`
\* (and the required ones) come from the caller's mapping
build_fields(h, dflt, c, supplied, i, refs) ==
    LET sch == Schema(c)
    IN IF i > Len(sch)
       THEN Alloc(h, [k |-> "model", cls |-> c, items |-> <<>>, refs |-> refs,
                      attrs |-> ScalarDefaults(c)])
       ELSE LET fd == sch[i]
                given == fd.name \in supplied \/ ~fd.has_default
                rest(made) == build_fields(made.heap, dflt, c, supplied, i + 1,
                                           refs @@ (fd.name :> made.ref))
            IN IF ~IsRefKind(fd.ty)
               THEN build_fields(h, dflt, c, supplied, i + 1, refs)
               ELSE IF ~given
               THEN Bind(smart_deepcopy(h, dflt[<<c, fd.name>>]), rest)
               ELSE IF fd.ty.k = "model"
               THEN Bind(construct(h, dflt, fd.ty.cls, {}), rest)
               ELSE Bind(Alloc(h, Container(fd.ty.k, <<"given">>)), rest)

construct(h, dflt, c, supplied) == build_fields(h, dflt, c, supplied, 1, <<>>)

RECURSIVE import_fields(_, _, _, _)

\* the class body of c executed: one object per `= []`, `= {}` and `= C()`
import_fields(h, dflt, c, i) ==
    LET sch == Schema(c)
    IN IF i > Len(sch) THEN [heap |-> h, dflt |-> dflt]
       ELSE LET fd == sch[i]
                rest(made) == import_fields(made.heap, dflt @@ (<<c, fd.name>> :> made.ref),
                                            c, i + 1)
            IN IF ~(fd.has_default /\ IsRefKind(fd.ty))
               THEN import_fields(h, dflt, c, i + 1)
               ELSE IF fd.ty.k = "model"
               THEN Bind(construct(h, dflt, fd.ty.cls, {}), rest)
               ELSE Bind(Alloc(h, Container(fd.ty.k, <<>>)), rest)

\* the classes whose objects are followed, in the order the file defines them
HeapClasses ==
    <<"NotificationSettings", "UserPreferences", "SkillLevel", "LearningContext",
      "User", "SessionContext", "UserContext", "AnalyticsData">>

RECURSIVE import_classes(_, _)
import_classes(st, n) ==
    IF n > Len(HeapClasses) THEN st
    ELSE LET rest(done) == import_classes(done, n + 1)
         IN Bind(import_fields(st.heap, st.dflt, HeapClasses[n], 1), rest)

\* the file imported: the heap of declared defaults and where each is
Imported == import_classes([heap |-> <<>>, dflt |-> <<>>], 1)
ClassDefaults == Imported.dflt

RECURSIVE Reach(_, _)
Reach(h, r) == {r} \cup UNION {Reach(h, h[r].refs[f]) : f \in DOMAIN h[r].refs}

\* the value an object holds, references followed
RECURSIVE DeepValue(_, _)
DeepValue(h, r) ==
    [k |-> h[r].k, cls |-> h[r].cls, items |-> h[r].items, attrs |-> h[r].attrs,
     refs |-> [f \in DOMAIN h[r].refs |-> DeepValue(h, h[r].refs[f])]]

InitHeap ==
    /\ heap = Imported.heap
    /\ insts = <<>>
    /\ pristine = {}

\* what callers construct: each class with its defaulted fields left out,
\* or with some of them given
Constructions ==
    {<<"UserPreferences", {}>>, <<"UserPreferences", {"preferred_languages"}>>,
     <<"LearningContext", {}>>, <<"AnalyticsData", {}>>, <<"UserContext", {}>>,
     <<"User", {}>>, <<"User", {"preferences"}>>}

\* C(...) with the fields of `supplied` given and every other default left out
New(c, supplied) ==
    /\ Len(insts) < MaxInstances
    /\ LET sch == Schema(c)
           omitted == {sch[i].name : i \in {j \in 1..Len(sch) :
                          sch[j].has_default /\ IsRefKind(sch[j].ty)
                          /\ sch[j].name \notin supplied}}
       IN \E made \in {construct(heap, ClassDefaults, c, supplied)} :
             /\ heap' = made.heap
             /\ insts' = Append(insts, made.ref)
             /\ pristine' = pristine \cup {<<made.ref, f>> : f \in omitted}
    /\ UNCHANGED <<major, callVars>>

\* the fields the callers mutate in place
MutatedFields ==
    {"preferred_languages", "skill_levels", "event_data", "notification_settings",
     "active_learning_goals"}

\* the objects of instance `root` held by one of those fields, at any depth
RECURSIVE Targets(_, _)
Targets(h, r) ==
    UNION {(IF f \in MutatedFields THEN {h[r].refs[f]} ELSE {}) \cup Targets(h, h[r].refs[f]) :
             f \in DOMAIN h[r].refs}

\* how many in-place mutations the objects of heap h, from r on, went through
RECURSIVE Mutations(_, _)
Mutations(h, r) ==
    IF r > Len(h) THEN 0
    ELSE Cardinality({i \in 1..Len(h[r].items) : h[r].items[i] = "added"})
         + (IF /\ "email_notifications" \in DOMAIN h[r].attrs
               /\ h[r].attrs["email_notifications"] = JBool(FALSE)
            THEN 1 ELSE 0)
         + Mutations(h, r + 1)

\* x.append(..) / x[..] = .. / x.email_notifications = False on the object
\* at reference r, reached from instance root
Mutate(root, r) ==
    /\ r \in Targets(heap, root)
    /\ Mutations(heap, 1) < MaxMutations
    /\ IF heap[r].k = "model"
       THEN /\ "email_notifications" \in DOMAIN heap[r].attrs
            /\ heap[r].attrs["email_notifications"] = JBool(TRUE)
            /\ heap' = [heap EXCEPT ![r].attrs["email_notifications"] = JBool(FALSE)]
       ELSE /\ heap' = [heap EXCEPT ![r].items = Append(@, "added")]
    /\ pristine' = pristine \ {<<root, f>> : f \in
                        {g \in DOMAIN heap[root].refs : r \in Reach(heap, heap[root].refs[g])}}
    /\ UNCHANGED <<major, insts, callVars>>

Init ==
    /\ major \in {1, 2}
    /\ InitCall
    /\ InitHeap

Next ==
    \/ \E c \in Classes : \E x \in Inputs(c) : Construct(c, x)
    \/ Serialize
    \/ Revalidate
    \/ Discard

Spec == Init /\ [][Next]_vars

NextObjects ==
    \/ \E n \in Constructions : New(n[1], n[2])
    \/ \E i \in 1..Len(insts) : \E r \in 1..Len(heap) : Mutate(insts[i], r)

SpecObjects == Init /\ [][NextObjects]_vars

(***************************************************************************)
(* Properties of construction                                              *)
(***************************************************************************)
Supplied(fld) == fld \in DOMAIN payload.f
Reported(fld) == <<fld>> \in result.errs
\* an error was reported on no other field than fld
OthersValid(fld) == result.errs \subseteq {<<fld>>}

ScoreClasses ==
    {"SkillLevel", "SearchResult", "SkillAssessment", "PersonalizedResponse",
     "WorkflowOptimization"}
ScoreField(c) ==
    CASE c = "SkillLevel" -> "confidence"
      [] c = "SearchResult" -> "relevance_score"
      [] c = "SkillAssessment" -> "confidence_score"
      [] c = "PersonalizedResponse" -> "confidence_score"
      [] c = "WorkflowOptimization" -> "difficulty_reduction"

\* the number a JSON number denotes, in units of 1/Scale
NumberOf(v) == IF v.t = "int" THEN v.n * Scale ELSE v.n
IsNumber(v) == v.t \in {"int", "float"}

\* C1: for each of the five score/confidence fields, a supplied number is
\* reported as a violation of that field exactly when it is below 0.0 or
\* above 1.0; with the other fields valid, 0.0 and 1.0 (and everything
\* between) are accepted and -0.0001 and 1.0001 are rejected; an accepted
\* instance holds a float in [0.0, 1.0] equal to the number supplied, so
\* nothing is clamped.
C1_ScoreBounds ==
    cls \in ScoreClasses =>
        LET fld == ScoreField(cls) IN
        /\ (Supplied(fld) /\ IsNumber(payload.f[fld])) =>
              LET x == NumberOf(payload.f[fld]) IN
              /\ Reported(fld) <=> (x < 0 \/ x > Scale)
              /\ (OthersValid(fld) /\ 0 <= x /\ x <= Scale) => result.errs = {}
              /\ result.errs = {} => result.val.f[fld] = JFloat(x)
        /\ result.errs = {} =>
              /\ result.val.f[fld].t = "float"
              /\ 0 <= result.val.f[fld].n
              /\ result.val.f[fld].n <= Scale

\* C1 happens: the upper bound 1.0 was supplied, accepted and held as 1.0
C1_Witness ==
    /\ cls = "WorkflowOptimization"
    /\ phase = "accepted"
    /\ payload.f["difficulty_reduction"] = JFloat(Scale)
    /\ result.val.f["difficulty_reduction"] = JFloat(Scale)

RatingFields == {"rating", "clarity_rating", "accuracy_rating"}

\* C2 as the specification words it: a rating is accepted exactly when the
\* supplied value is an integer from 1 to 5, every value that is not an
\* integer being rejected.
C2_OnlyIntegersAccepted ==
    cls = "UserFeedback" =>
        \A fld \in RatingFields :
            Supplied(fld) =>
                (~Reported(fld) <=> (payload.f[fld].t = "int" /\ payload.f[fld].n \in 1..5))

\* the integer that lax conversion reads in a supplied value, if any
IntegerReading(v) ==
    CASE v.t = "int" -> {v.n}
      [] v.t = "str" /\ v.s = "3" -> {3}
      [] v.t = "str" /\ v.s = "6" -> {6}
      [] v.t = "float" /\ v.n % Scale = 0 -> {v.n \div Scale}
      [] v.t = "float" /\ v.n % Scale # 0 /\ major = 1 -> {v.n \div Scale}
      [] OTHER -> {}

\* C2: a rating field is accepted exactly when the supplied value is an
\* integer from 1 to 5 or converts to one ("3", 3.0), and is rejected when it
\* is an integer outside [1,5], converts to one ("6", 6.0), or has no
\* integer reading (null, "abc", and 3.7 under pydantic 2); an accepted
\* instance always holds an int from 1 to 5, the supplied one if an int was
\* supplied. A missing rating field is reported.
C2_RatingBounds ==
    cls = "UserFeedback" =>
        \A fld \in RatingFields :
            /\ ~Supplied(fld) => Reported(fld)
            /\ Supplied(fld) =>
                  LET v == payload.f[fld] IN
                  /\ ~Reported(fld) <=> (\E n \in IntegerReading(v) : n \in 1..5)
                  /\ result.errs = {} => result.val.f[fld].n \in IntegerReading(v)
            /\ result.errs = {} =>
                  /\ result.val.f[fld].t = "int"
                  /\ result.val.f[fld].n \in 1..5

\* C2 happens: the text "3" was supplied as a rating and 3 is what is held
C2_Witness ==
    /\ cls = "UserFeedback"
    /\ phase = "accepted"
    /\ payload.f["rating"] = JStr("3")
    /\ result.val.f["rating"] = JInt(3)

DurationFields(c) ==
    CASE c = "LearningInteraction" -> {"processing_time"}
      [] c = "LearningResource" -> {"estimated_time"}
      [] c = "Milestone" -> {"estimated_time"}
      [] c = "LearningPath" -> {"estimated_duration"}
      [] c = "ProgressMetrics" -> {"time_spent"}
      [] c = "WorkflowOptimization" -> {"estimated_time_savings"}
      [] OTHER -> {}

\* C3: a negative number supplied for a time-duration field is reported as a
\* violation of that field, so no accepted instance holds a negative
\* duration.
C3_DurationsNonNegative ==
    \A fld \in DurationFields(cls) :
        /\ (Supplied(fld) /\ IsNumber(payload.f[fld]) /\ payload.f[fld].n < 0) => Reported(fld)
        /\ result.errs = {} => result.val.f[fld].n >= 0

EnumFields(c) ==
    CASE c = "SkillLevel" -> {<<"level", DifficultyLevel>>}
      [] c = "UserPreferences" -> {<<"explanation_style", ExplanationStyle>>}
      [] c = "LearningInteraction" -> {<<"type", InteractionType>>}
      [] c = "LearningResource" -> {<<"difficulty_level", DifficultyLevel>>}
      [] c = "Issue" -> {<<"type", IssueType>>, <<"severity", IssueSeverity>>}
      [] c = "KnowledgeDocument" ->
            {<<"document_type", DocumentType>>, <<"difficulty_level", DifficultyLevel>>}
      [] OTHER -> {}

\* C4: a string supplied for an enum-typed field is reported as a violation
\* of that field exactly when it is not, letter for letter, one of the
\* enum's declared values ("expert" and "Advanced" are reported for a
\* DifficultyLevel); an accepted instance holds the member that was
\* supplied, never another one, also where the field declares a default.
C4_EnumExact ==
    \A ef \in EnumFields(cls) :
        LET fld == ef[1]
            vals == ef[2]
        IN (Supplied(fld) /\ payload.f[fld].t = "str") =>
              /\ Reported(fld) <=> payload.f[fld].s \notin vals
              /\ payload.f[fld].s \in {"expert", "Advanced"} => Reported(fld)
              /\ result.errs = {} => result.val.f[fld] = PyEnum(payload.f[fld].s)

\* C4 happens: a string that is no ExplanationStyle was supplied for the
\* defaulted field explanation_style, and the construction was rejected on it
C4_Witness ==
    /\ cls = "UserPreferences"
    /\ phase = "rejected"
    /\ Supplied("explanation_style")
    /\ payload.f["explanation_style"] = JStr("Detailed")
    /\ Reported("explanation_style")

\* the fields of a UserFeedback input that break their constraint
Offending(x) ==
    {fld \in RatingFields :
        \/ fld \notin DOMAIN x.f
        \/ ~(\E n \in IntegerReading(x.f[fld]) : n \in 1..5)}
    \cup {fld \in {"helpful"} :
            \/ fld \notin DOMAIN x.f
            \/ x.f[fld] \notin {JBool(TRUE), JBool(FALSE), JStr("yes")}}
    \cup {fld \in {"comments"} : fld \in DOMAIN x.f /\ x.f[fld].t \notin {"str", "null"}}

\* C5: the fields named in the violations reported for a UserFeedback input
\* are exactly the fields whose values break their constraint, however many
\* they are; {rating: 6, helpful: true, clarity_rating: 3, accuracy_rating: 4}
\* is rejected with one violation, on rating.
C5_AllViolationsReported ==
    cls = "UserFeedback" =>
        /\ result.errs = {<<fld>> : fld \in Offending(payload)}
        /\ payload = FeedbackOf(JInt(6), JBool(TRUE), JInt(3), JInt(4)) =>
              result.errs = {<<"rating">>}

\* C5 happens: three ratings out of range, three violations, one per field
C5_Witness ==
    /\ cls = "UserFeedback"
    /\ phase = "rejected"
    /\ payload = FeedbackOf(JInt(0), JBool(TRUE), JInt(MaxRating), JInt(0))
    /\ result.errs = {<<"rating">>, <<"clarity_rating">>, <<"accuracy_rating">>}

(***************************************************************************)
(* Properties of the round trip                                            *)
(***************************************************************************)
\* C6 as the specification words it: the serialized form of an accepted
\* instance, read back, equals the input it was constructed from, and
\* validating it again gives an instance equal to the first.
C6_RoundTripEqualsInput ==
    phase = "revalidated" =>
        /\ wire = payload
        /\ result2.errs = {}
        /\ result2.val = result.val

\* C6: the serialized form of an accepted instance is accepted when validated
\* again and gives an instance equal to the first, with every declared field
\* and no other; it equals the input only where the input was already in
\* that form. The SkillLevel {topic: "recursion", level: "advanced",
\* confidence: 0.85, last_assessed: "2024-01-01T00:00:00Z"} is accepted and
\* comes back field for field, last_assessed being the same instant written
\* with "Z" by pydantic 2 and with "+00:00" by pydantic 1.
C6_RoundTrip ==
    phase = "revalidated" =>
        /\ result2.errs = {}
        /\ result2.val = result.val
        /\ DOMAIN wire.f = FieldNames(Schema(cls))
        /\ (cls = "SkillLevel" /\ payload = SkillLevelOK("recursion")) =>
              wire = With(payload, "last_assessed",
                          JStr(IF major = 2 THEN "2024-01-01T00:00:00Z"
                               ELSE "2024-01-01T00:00:00+00:00"))

\* C6 happens: the SkillLevel of the example went through the round trip
C6_Witness ==
    /\ phase = "revalidated"
    /\ cls = "SkillLevel"
    /\ payload = SkillLevelOK("recursion")
    /\ result2.val.f["confidence"] = JFloat((85 * Scale) \div 100)

(***************************************************************************)
(* Properties of records that hold records                                 *)
(***************************************************************************)
PageFields == {"data", "total", "page", "limit", "has_next", "has_prev"}
\* the JSON type of each field of a PaginatedResponse
PageFieldType(fld) ==
    CASE fld = "data" -> "arr"
      [] fld \in {"total", "page", "limit"} -> "int"
      [] fld \in {"has_next", "has_prev"} -> "bool"

\* C7: a PaginatedResponse is accepted exactly when each of its six fields
\* is present and of its own type, whatever the values are: with data = [],
\* total = 0, has_next = has_prev = false every integer page and limit is
\* accepted, zero and negative ones included, and a rejection names only
\* fields that are missing or of another type.
C7_NoCrossFieldChecks ==
    cls = "PaginatedResponse" =>
        /\ result.errs = {<<fld>> : fld \in
              {x \in PageFields : ~Supplied(x) \/ payload.f[x].t # PageFieldType(x)}}
        /\ (/\ PageFields \subseteq DOMAIN payload.f
            /\ payload.f["data"] = JArr(<<>>)
            /\ payload.f["total"] = JInt(0)
            /\ payload.f["has_next"] = JBool(FALSE)
            /\ payload.f["has_prev"] = JBool(FALSE)
            /\ payload.f["page"].t = "int"
            /\ payload.f["limit"].t = "int") => result.errs = {}

\* C7 happens: an empty page numbered -1 of limit 0 that says it has a next
\* page was accepted
C7_Witness ==
    /\ cls = "PaginatedResponse"
    /\ phase = "accepted"
    /\ payload = PageOf(JArr(<<>>), JInt(0), JInt(-1), JInt(0), JBool(TRUE), JBool(FALSE))

\* a field value that breaks the bound of its field
BadLeaf(key, v) ==
    \/ key \in RatingFields /\ v.t = "int" /\ v.n \notin 1..5
    \/ key \in {"confidence", "relevance_score"} /\ v.t = "float" /\ (v.n < 0 \/ v.n > Scale)

\* where, in a payload, the values that break a bound are
RECURSIVE BadPaths(_, _)
BadPaths(x, path) ==
    CASE x.t = "obj" ->
           {Append(path, key) : key \in {k \in DOMAIN x.f : BadLeaf(k, x.f[k])}}
           \cup UNION {BadPaths(x.f[key], Append(path, key)) : key \in DOMAIN x.f}
      [] x.t = "arr" ->
           UNION {BadPaths(x.a[i], Append(path, Idx(i - 1))) : i \in 1..Len(x.a)}
      [] OTHER -> {}

\* the bounds of the records held, at any depth, in a validated value
RECURSIVE WellFormed(_)
WellFormed(val) ==
    CASE val.t = "model" ->
           /\ val.cls = "UserFeedback" =>
                 \A fld \in RatingFields : val.f[fld].t = "int" /\ val.f[fld].n \in 1..5
           /\ val.cls = "SkillLevel" =>
                 /\ val.f["confidence"].t = "float"
                 /\ 0 <= val.f["confidence"].n /\ val.f["confidence"].n <= Scale
                 /\ val.f["level"].t = "enum" /\ val.f["level"].s \in DifficultyLevel
           /\ val.cls = "SearchResult" =>
                 /\ val.f["relevance_score"].t = "float"
                 /\ 0 <= val.f["relevance_score"].n /\ val.f["relevance_score"].n <= Scale
           /\ \A name \in DOMAIN val.f : WellFormed(val.f[name])
      [] val.t = "obj" -> \A key \in DOMAIN val.f : WellFormed(val.f[key])
      [] val.t = "arr" -> \A i \in 1..Len(val.a) : WellFormed(val.a[i])
      [] OTHER -> TRUE

NestingClasses ==
    {"LearningInteraction", "LearningContext", "GenerationContext", "User", "SkillAssessment"}

\* C8: a value that breaks the bound of its field is reported at its place
\* however deep it lies in the payload, in a nested record, in an element of
\* a list of records or in a value of a mapping of records (a feedback
\* rating of 6 in a LearningInteraction, a confidence of 1.5 in skill_levels,
\* a negative relevance_score in retrieved_documents, bad feedback in a
\* User's learning_history), so the construction is rejected; every record
\* held by an accepted instance satisfies its own bounds.
C8_RecursiveValidation ==
    /\ cls \in NestingClasses => BadPaths(payload, <<>>) \subseteq result.errs
    /\ (cls # "" /\ result.errs = {}) => WellFormed(result.val)

\* C8 happens: a User was rejected for the rating of the feedback of an
\* interaction of its learning history
C8_Witness ==
    /\ cls = "User"
    /\ phase = "rejected"
    /\ <<"learning_context", "learning_history", "0", "feedback", "rating">> \in result.errs

\* C10 as the specification words it: in an accepted LearningContext every
\* record of skill_levels is keyed by its own topic.
C10_KeyedByTopic ==
    (cls = "LearningContext" /\ result.errs = {}) =>
        \A key \in DOMAIN result.val.f["skill_levels"].f :
            result.val.f["skill_levels"].f[key].f["topic"] = JStr(key)

(***************************************************************************)
(* Properties of defaults                                                  *)
(***************************************************************************)
\* the object a field of an instance holds
Held(inst, fld) == heap[inst].refs[fld]
\* the default a class body declares for a field, as it was when imported
Declared(c, fld) == DeepValue(Imported.heap, ClassDefaults[<<c, fld>>])

\* C9: whatever instances were constructed with defaulted fields left out
\* and whatever was mutated in place through one of them, the default each
\* class declares is as it was at import, every field an instance got by
\* default and did not itself mutate still holds the declared default (an
\* empty list, an empty dict, a default nested record), and no object is
\* held by two instances or by an instance and a class.
C9_FreshDefaults ==
    /\ \A key \in DOMAIN ClassDefaults :
          DeepValue(heap, ClassDefaults[key]) = Declared(key[1], key[2])
    /\ \A p \in pristine :
          /\ DeepValue(heap, Held(p[1], p[2])) = Declared(heap[p[1]].cls, p[2])
          /\ heap[Held(p[1], p[2])].k \in {"list", "dict"} => heap[Held(p[1], p[2])].items = <<>>
    /\ \A i, j \in 1..Len(insts) :
          i # j => Reach(heap, insts[i]) \cap Reach(heap, insts[j]) = {}
    /\ \A i \in 1..Len(insts) : \A key \in DOMAIN ClassDefaults :
          Reach(heap, insts[i]) \cap Reach(heap, ClassDefaults[key]) = {}

\* C9 happens: of two UserPreferences made with preferred_languages left
\* out, the first had an element appended to its list and the second holds
\* an empty one
C9_Witness ==
    /\ Len(insts) = 2
    /\ heap[insts[1]].cls = "UserPreferences"
    /\ heap[insts[2]].cls = "UserPreferences"
    /\ heap[Held(insts[1], "preferred_languages")].items = <<"added">>
    /\ <<insts[2], "preferred_languages">> \in pristine
    /\ heap[Held(insts[2], "preferred_languages")].items = <<>>

====
